---------------------------- MODULE Spec2Model ----------------------------
(***************************************************************************)
(* A top-to-bottom run of Class_pres/plot_cluster_comparison.ipynb.        *)
(*                                                                         *)
(* The notebook has three code cells that do work:                         *)
(*   cell 2  generates the six datasets, sets plot_num, default_base and   *)
(*           datasets, and runs the loop                                   *)
(*             for i_dataset, (dataset, algo_params) in enumerate(...)     *)
(*           whose body merges params and normalises X, and nothing else;  *)
(*   cell 3  (module level, after that loop has ended) computes bandwidth  *)
(*           and connectivity and builds the ten estimators;               *)
(*   cell 4  (module level: IPython strips the common leading indent of a  *)
(*           cell) loops over clustering_algorithms, fits, extracts the    *)
(*           labels, plots, and finally calls plt.show().                  *)
(*                                                                         *)
(* Numbers of the parameter dictionaries are kept in thousandths           *)
(* (.3 is 300, -200 is -200000) so that they are integers.                 *)
(***************************************************************************)
EXTENDS Integers, Sequences, FiniteSets, TLC

\* ---------------------------------------------------------------- bounds
\* points per dataset (stands for n_samples)
NPoints == 2
\* largest cluster label an estimator may return
MaxLabel == 1
\* warnings one fit call may raise
MaxWarn == 2
\* digits of the component count in the "connected components" message
MaxDigits == 3
\* largest cluster label when the colour lookup is checked on its own
MaxColorLabel == 10

\* ------------------------------------------------------------- constants
NDatasets == 6
NAlgorithms == 10

DatasetIds == 0 .. (NDatasets - 1)
AlgorithmIds == 0 .. (NAlgorithms - 1)

Keys ==
  {"quantile", "eps", "damping", "preference", "n_neighbors", "n_clusters",
   "min_samples", "xi", "min_cluster_size"}

\* cell 2: default_base = {...}
DefaultBase0 ==
  [quantile |-> 300, eps |-> 300, damping |-> 900, preference |-> -200000,
   n_neighbors |-> 10000, n_clusters |-> 3000, min_samples |-> 20000,
   xi |-> 50, min_cluster_size |-> 100]

NoOverride == [k \in {} |-> 0]

\* datasets with a tuned override left on the blobs row
Datasets0_BlobsTuned ==
  [i \in DatasetIds |->
     CASE i = 0 -> [name |-> "noisy_circles",
                    algo_params |-> [damping |-> 770, preference |-> -240000,
                                     quantile |-> 200, n_clusters |-> 2000,
                                     min_samples |-> 20000, xi |-> 250]]
       [] i = 1 -> [name |-> "noisy_moons",
                    algo_params |-> [damping |-> 750, preference |-> -220000,
                                     n_clusters |-> 2000]]
       [] i = 2 -> [name |-> "varied",
                    algo_params |-> [eps |-> 180, n_neighbors |-> 2000,
                                     min_samples |-> 5000, xi |-> 35,
                                     min_cluster_size |-> 200]]
       [] i = 3 -> [name |-> "aniso",
                    algo_params |-> [eps |-> 150, n_neighbors |-> 2000,
                                     min_samples |-> 20000, xi |-> 100,
                                     min_cluster_size |-> 200]]
       [] i = 4 -> [name |-> "blobs", algo_params |-> [eps |-> 180]]
       [] OTHER -> [name |-> "no_structure", algo_params |-> NoOverride]]

\* cell 2: datasets = [(noisy_circles, {...}), ...]
Datasets0 ==
  [i \in DatasetIds |->
     CASE i = 0 -> [name |-> "noisy_circles",
                    algo_params |-> [damping |-> 770, preference |-> -240000,
                                     quantile |-> 200, n_clusters |-> 2000,
                                     min_samples |-> 20000, xi |-> 250]]
       [] i = 1 -> [name |-> "noisy_moons",
                    algo_params |-> [damping |-> 750, preference |-> -220000,
                                     n_clusters |-> 2000]]
       [] i = 2 -> [name |-> "varied",
                    algo_params |-> [eps |-> 180, n_neighbors |-> 2000,
                                     min_samples |-> 5000, xi |-> 35,
                                     min_cluster_size |-> 200]]
       [] i = 3 -> [name |-> "aniso",
                    algo_params |-> [eps |-> 150, n_neighbors |-> 2000,
                                     min_samples |-> 20000, xi |-> 100,
                                     min_cluster_size |-> 200]]
       [] i = 4 -> [name |-> "blobs", algo_params |-> NoOverride]
       [] OTHER -> [name |-> "no_structure", algo_params |-> NoOverride]]

\* cell 3: the names of clustering_algorithms, in order
AlgorithmNames ==
  [j \in AlgorithmIds |->
     CASE j = 0 -> "MiniBatch KMeans"
       [] j = 1 -> "Affinity Propagation"
       [] j = 2 -> "MeanShift"
       [] j = 3 -> "Spectral Clustering"
       [] j = 4 -> "Ward"
       [] j = 5 -> "Agglomerative Clustering"
       [] j = 6 -> "DBSCAN"
       [] j = 7 -> "OPTICS"
       [] j = 8 -> "BIRCH"
       [] OTHER -> "Gaussian Mixture"]

\* cell 3: the keys of params each constructor reads (bandwidth reads
\* quantile, connectivity reads n_neighbors)
ConstructorKeys ==
  [j \in AlgorithmIds |->
     CASE j = 0 -> {"n_clusters"}
       [] j = 1 -> {"damping", "preference"}
       [] j = 2 -> {"quantile"}
       [] j = 3 -> {"n_clusters"}
       [] j = 4 -> {"n_clusters", "n_neighbors"}
       [] j = 5 -> {"n_clusters", "n_neighbors"}
       [] j = 6 -> {"eps"}
       [] j = 7 -> {"min_samples", "xi", "min_cluster_size"}
       [] j = 8 -> {"n_clusters"}
       [] OTHER -> {"n_clusters"}]

\* cell 3: the estimators built from bandwidth or connectivity, both computed
\* from X
UsesData == {2, 4, 5}

\* cell 4: hasattr(algorithm, 'labels_') after fit; GaussianMixture has none
HasLabelsAttr(j) == j # 9

\* ------------------------------------------------------------------ state
VARIABLES
  pc,             \* position of the run
  i_dataset,      \* cell 2 loop variable, -1 while unbound
  params,         \* cell 2: params, empty while unbound
  X,              \* the array X: [ds, norm, n], ds = -1 while unbound
  plot_num,       \* 0 while unbound
  default_base,
  datasets,
  clustering_algorithms,  \* cell 3: the estimators, empty while unbound
  alg,            \* cell 4 loop position (name, algorithm), -1 before it
  filters,        \* warnings.filters, first match wins
  saved,          \* the filters saved by warnings.catch_warnings()
  nWarn,          \* warnings raised by the running fit
  lastWarn,       \* the last warning raised and whether it was shown
  y_pred,         \* the label vector
  y_src,          \* the estimator and points y_pred came from
  log,            \* what the run has done so far
  paramsLog,      \* params after each iteration of the cell 2 loop
  showCount,      \* calls of plt.show()
  colors          \* cell 4: the colour array of the last plot

vars ==
  <<pc, i_dataset, params, X, plot_num, default_base, datasets,
    clustering_algorithms, alg, filters, saved, nWarn, lastWarn, y_pred,
    y_src, log, paramsLog, showCount, colors>>


\* ------------------------------------------------------- pure operations
\* cell 2: params = default_base.copy(); params.update(algo_params)
Merge(base, algo_params) == algo_params @@ base

\* np arrays are modelled by where their rows come from: the dataset, whether
\* StandardScaler has been applied, and the number of rows
Raw(i) == [ds |-> i, norm |-> FALSE, n |-> NPoints]

\* the scaler called without assigning its result back to X
Normalise_NoAssign(x) == x

\* cell 2: X = StandardScaler().fit_transform(X)
Normalise(x) == [x EXCEPT !.norm = TRUE]

Unbound == [ds |-> -1, norm |-> FALSE, n |-> 0]

\* cell 3: one entry of clustering_algorithms
Estimator(j, p, x) ==
  [name        |-> AlgorithmNames[j],
   args        |-> [k \in ConstructorKeys[j] |-> p[k]],
   data        |-> IF j \in UsesData THEN x ELSE Unbound,
   fitted_on   |-> Unbound,
   has_labels_ |-> FALSE]

\* label vectors of n entries: one integer label per row, -1 for outliers
Labels == -1 .. MaxLabel
LabelVectors(n) == [1 .. n -> Labels]

\* ---------------------------------------------------------- warnings
Categories == {"UserWarning", "FutureWarning", "DeprecationWarning"}

\* the messages a fit may warn with: the ward message with a component
\* count of 1..MaxDigits digits, the spectral message, anything else
Messages ==
  [kind : {"components"}, ndigits : 1 .. MaxDigits]
    \cup [kind : {"graph", "other"}, ndigits : {0}]

Warnings == [category : Categories, message : Messages]

\* issubclass(category, filter category)
IsSubclass(c, d) == c = d \/ d = "Warning"

\* re.match of a filter's message pattern; "" matches every message, the
\* ward pattern has [0-9]{1,2} for the count
MsgMatch(pattern, m) ==
  CASE pattern = "" -> TRUE
    [] pattern = "components" -> m.kind = "components" /\ m.ndigits \in 1 .. 2
    [] pattern = "graph" -> m.kind = "graph"
    [] OTHER -> FALSE

FilterMatches(f, w) ==
  IsSubclass(w.category, f.category) /\ MsgMatch(f.message, w.message)

\* warnings.warn: the first matching filter decides, no match means "default"
RECURSIVE Disposition(_, _)
Disposition(fs, w) ==
  IF fs = <<>> THEN "default"
  ELSE IF FilterMatches(Head(fs), w) THEN Head(fs).action
  ELSE Disposition(Tail(fs), w)

Shown(fs, w) == Disposition(fs, w) # "ignore"

\* the two filters written without category=UserWarning
SuppressedFilters_AnyCategory ==
  << [action |-> "ignore", message |-> "components", category |-> "Warning"],
     [action |-> "ignore", message |-> "graph", category |-> "Warning"] >>

\* cell 4: the two warnings.filterwarnings("ignore", ...) calls, in call order
SuppressedFilters ==
  << [action |-> "ignore", message |-> "components", category |-> "UserWarning"],
     [action |-> "ignore", message |-> "graph", category |-> "UserWarning"] >>

\* warnings.filterwarnings inserts at the front of the list
RECURSIVE InsertAll(_, _)
InsertAll(new, fs) ==
  IF new = <<>> THEN fs ELSE InsertAll(Tail(new), <<Head(new)>> \o fs)

\* filter lists the kernel may start with
InitialFilters ==
  { <<>>,
    << [action |-> "ignore", message |-> "", category |-> "DeprecationWarning"] >> }

NoWarn == [raised |-> FALSE]

\* ------------------------------------------------------------- colours
\* cell 4: the nine colours handed to cycle()
Palette ==
  << "#377eb8", "#ff7f00", "#4daf4a", "#f781bf", "#a65628", "#984ea3",
     "#999999", "#e41a1c", "#dede00" >>

\* cell 4: the colour appended for outliers
Black == "#000000"

\* max(y_pred) of a non-empty vector
RECURSIVE PyMax(_)
PyMax(y) ==
  IF Len(y) = 1 THEN y[1]
  ELSE LET m == PyMax(Tail(y)) IN IF y[1] > m THEN y[1] ELSE m

\* list(islice(cycle(seq), n)): the first n items of seq repeated for ever
Cycled(seq, n) ==
  [i \in 1 .. (IF n > 0 THEN n ELSE 0) |-> seq[((i - 1) % Len(seq)) + 1]]

\* the colour array built without the + 1 of max(y_pred) + 1
Colors_NoPlusOne(y) == Append(Cycled(Palette, PyMax(y)), Black)

\* cell 4: colors = np.array(list(islice(cycle([...]), int(max(y_pred) + 1))))
\*         colors = np.append(colors, ["#000000"])
Colors(y) == Append(Cycled(Palette, PyMax(y) + 1), Black)

\* numpy indexing of a one-dimensional array (kept as a 1-based sequence):
\* an index k is valid when -len <= k < len, a negative k counts from the end
InBounds(arr, k) == -Len(arr) <= k /\ k < Len(arr)
NpIndex(arr, k) == IF k >= 0 THEN arr[k + 1] ELSE arr[Len(arr) + k + 1]

\* cell 4: colors[y_pred], defined when every label is a valid index
Lookup(arr, y) == [i \in 1 .. Len(y) |-> NpIndex(arr, y[i])]

\* len() of a list or tuple, both kept as functions over 0 .. n-1
PyLen(f) == Cardinality(DOMAIN f)

\* ----------------------------------------------------------------- log
Ev(e, d, a, i) ==
  [ev |-> e, ds |-> d, alg |-> a, idx |-> i, rows |-> 0, cols |-> 0,
   title |-> FALSE, src |-> -1, pts |-> -1, n |-> -1]

Init ==
  /\ pc = "gen"
  /\ i_dataset = -1
  /\ params = NoOverride
  /\ X = Unbound
  /\ plot_num = 0
  /\ default_base = NoOverride
  /\ datasets = <<>>
  /\ clustering_algorithms = <<>>
  /\ alg = -1
  /\ filters \in InitialFilters
  /\ saved = <<>>
  /\ nWarn = 0
  /\ lastWarn = NoWarn
  /\ y_pred = <<>>
  /\ y_src = [alg |-> -1, pts |-> Unbound]
  /\ log = <<>>
  /\ paramsLog = <<>>
  /\ showCount = 0
  /\ colors = <<>>

\* an uncaught exception ends the run: the cell stops and the kernel drops
\* the cells queued after it
Uncaught(x) ==
  /\ pc' = "failed"
  /\ log' = Append(log, Ev("raise", x.ds, alg, plot_num))

\* ---------------------------------------------------------------- cell 2
\* lines 81-98: the make_* calls; X, y = datasets.make_blobs(random_state=8)
\* leaves X bound to the raw blobs array
Generate ==
  /\ pc = "gen"
  /\ X' = Raw(4)
  /\ pc' = "setup"
  /\ log' = Append(log, Ev("gen", -1, -1, 0))
  /\ UNCHANGED <<i_dataset, params, plot_num, default_base, datasets,
                 clustering_algorithms, alg, filters, saved, nWarn, lastWarn,
                 y_pred, y_src, paramsLog, showCount,
                 colors>>

GenerateRaise ==
  /\ pc = "gen"
  /\ Uncaught(X)
  /\ UNCHANGED <<i_dataset, params, X, plot_num, default_base, datasets,
                 clustering_algorithms, alg, filters, saved, nWarn, lastWarn,
                 y_pred, y_src, paramsLog, showCount,
                 colors>>

\* lines 103-129: plot_num = 1, default_base = {...}, datasets = [...]
Setup ==
  /\ pc = "setup"
  /\ plot_num' = 1
  /\ default_base' = DefaultBase0
  /\ datasets' = Datasets0
  /\ pc' = "dsloop"
  /\ UNCHANGED <<i_dataset, params, X, clustering_algorithms, alg, filters,
                 saved, nWarn, lastWarn, y_pred, y_src, log, paramsLog,
                 showCount,
                 colors>>

\* the iteration with params = default_base (no copy): update() then writes
\* into default_base
DatasetIter_NoCopy ==
  /\ pc = "dsloop"
  /\ i_dataset + 1 < NDatasets
  /\ i_dataset' = i_dataset + 1
  /\ params' = Merge(default_base, datasets[i_dataset'].algo_params)
  /\ default_base' = params'
  /\ X' = Normalise(Raw(i_dataset'))
  /\ paramsLog' = Append(paramsLog, params')
  /\ log' = Append(log, Ev("merge", i_dataset', -1, 0))
  /\ UNCHANGED <<pc, plot_num, datasets, clustering_algorithms,
                 alg, filters, saved, nWarn, lastWarn, y_pred, y_src,
                 showCount,
                 colors>>

\* lines 131-139: one iteration of the dataset loop
DatasetIter ==
  /\ pc = "dsloop"
  /\ i_dataset + 1 < NDatasets
  /\ i_dataset' = i_dataset + 1
  /\ params' = Merge(default_base, datasets[i_dataset'].algo_params)
  /\ X' = Normalise(Raw(i_dataset'))
  /\ paramsLog' = Append(paramsLog, params')
  /\ log' = Append(log, Ev("merge", i_dataset', -1, 0))
  /\ UNCHANGED <<pc, plot_num, default_base, datasets, clustering_algorithms,
                 alg, filters, saved, nWarn, lastWarn, y_pred, y_src,
                 showCount,
                 colors>>

\* line 139 raises: params and X, y = dataset are already assigned
ScaleRaise ==
  /\ pc = "dsloop"
  /\ i_dataset + 1 < NDatasets
  /\ i_dataset' = i_dataset + 1
  /\ params' = Merge(default_base, datasets[i_dataset'].algo_params)
  /\ X' = Raw(i_dataset')
  /\ Uncaught(X')
  /\ UNCHANGED <<plot_num, default_base, datasets, clustering_algorithms,
                 alg, filters, saved, nWarn, lastWarn, y_pred, y_src,
                 paramsLog, showCount,
                 colors>>

\* the dataset loop is exhausted: cell 2 ends, cell 3 is next
DatasetLoopEnd ==
  /\ pc = "dsloop"
  /\ i_dataset + 1 = NDatasets
  /\ pc' = "build"
  /\ UNCHANGED <<i_dataset, params, X, plot_num, default_base, datasets,
                 clustering_algorithms, alg, filters, saved, nWarn, lastWarn,
                 y_pred, y_src, log, paramsLog, showCount,
                 colors>>

\* ---------------------------------------------------------------- cell 3
\* lines 150-194: bandwidth, connectivity, the ten estimators
Build ==
  /\ pc = "build"
  /\ clustering_algorithms' =
       [j \in AlgorithmIds |-> Estimator(j, params, X)]
  /\ pc' = "loop"
  /\ log' = Append(log, Ev("build", X.ds, -1, 0))
  /\ UNCHANGED <<i_dataset, params, X, plot_num, default_base, datasets, alg,
                 filters, saved, nWarn, lastWarn, y_pred, y_src, paramsLog,
                 showCount,
                 colors>>

BuildRaise ==
  /\ pc = "build"
  /\ Uncaught(X)
  /\ UNCHANGED <<i_dataset, params, X, plot_num, default_base, datasets,
                 clustering_algorithms, alg, filters, saved, nWarn, lastWarn,
                 y_pred, y_src, paramsLog, showCount,
                 colors>>

\* ---------------------------------------------------------------- cell 4
\* the loop head of a body that has lost its fit call
NextAlgorithm_SkipFit ==
  /\ pc = "loop"
  /\ alg + 1 < NAlgorithms
  /\ alg' = alg + 1
  /\ pc' = "labels"
  /\ UNCHANGED <<i_dataset, params, X, plot_num, default_base, datasets,
                 clustering_algorithms, filters, saved, nWarn, lastWarn,
                 y_pred, y_src, log, paramsLog, showCount,
                 colors>>

\* line 223: for name, algorithm in clustering_algorithms
NextAlgorithm ==
  /\ pc = "loop"
  /\ alg + 1 < NAlgorithms
  /\ alg' = alg + 1
  /\ pc' = "catch"
  /\ UNCHANGED <<i_dataset, params, X, plot_num, default_base, datasets,
                 clustering_algorithms, filters, saved, nWarn, lastWarn,
                 y_pred, y_src, log, paramsLog, showCount,
                 colors>>

\* lines 227-238: with warnings.catch_warnings(): two filterwarnings calls
EnterCatch ==
  /\ pc = "catch"
  /\ saved' = filters
  /\ filters' = InsertAll(SuppressedFilters, filters)
  /\ nWarn' = 0
  /\ lastWarn' = NoWarn
  /\ pc' = "fit"
  /\ log' = Append(log, Ev("fit_start", X.ds, alg, plot_num))
  /\ UNCHANGED <<i_dataset, params, X, plot_num, default_base, datasets,
                 clustering_algorithms, alg, y_pred, y_src, paramsLog,
                 showCount,
                 colors>>

\* line 239: the library warns while algorithm.fit(X) runs
FitWarn ==
  /\ pc = "fit"
  /\ nWarn < MaxWarn
  /\ \E w \in Warnings :
       lastWarn' = [raised |-> TRUE, warning |-> w, shown |-> Shown(filters, w),
                    before |-> Shown(saved, w)]
  /\ nWarn' = nWarn + 1
  /\ UNCHANGED <<pc, i_dataset, params, X, plot_num, default_base, datasets,
                 clustering_algorithms, alg, filters, saved, y_pred, y_src,
                 log, paramsLog, showCount,
                 colors>>

\* line 239: algorithm.fit(X) returns; the with block ends and
\* catch_warnings restores the saved filters
FitReturn ==
  /\ pc = "fit"
  /\ clustering_algorithms' =
       [clustering_algorithms EXCEPT
          ![alg].fitted_on = X,
          ![alg].has_labels_ = HasLabelsAttr(alg)]
  /\ filters' = saved
  /\ pc' = "labels"
  /\ log' = Append(log, [Ev("fit", X.ds, alg, plot_num) EXCEPT !.pts = X.ds])
  /\ UNCHANGED <<i_dataset, params, X, plot_num, default_base, datasets, alg,
                 saved, nWarn, lastWarn, y_pred, y_src, paramsLog, showCount,
                 colors>>

\* the fit wrapped in try/except with continue
FitRaise_Swallowed ==
  /\ pc = "fit"
  /\ filters' = saved
  /\ pc' = "loop"
  /\ log' = Append(log, Ev("raise", X.ds, alg, plot_num))
  /\ UNCHANGED <<i_dataset, params, X, plot_num, default_base, datasets,
                 clustering_algorithms, alg, saved, nWarn, lastWarn, y_pred,
                 y_src, paramsLog, showCount,
                 colors>>

\* line 239: algorithm.fit(X) raises; catch_warnings restores the filters on
\* the way out and nothing catches the exception
FitRaise ==
  /\ pc = "fit"
  /\ filters' = saved
  /\ Uncaught(X)
  /\ UNCHANGED <<i_dataset, params, X, plot_num, default_base, datasets,
                 clustering_algorithms, alg, saved, nWarn, lastWarn, y_pred,
                 y_src, paramsLog, showCount,
                 colors>>

\* the extraction written as y_pred = algorithm.predict(X) for every estimator
ExtractLabels_AlwaysPredict ==
  /\ pc = "labels"
  /\ y_pred' \in LabelVectors(X.n)
  /\ y_src' = [alg |-> alg, pts |-> X]
  /\ log' = Append(log, [Ev("predict", X.ds, alg, plot_num) EXCEPT !.src = alg])
  /\ pc' = "subplot"
  /\ UNCHANGED <<i_dataset, params, X, plot_num, default_base, datasets,
                 clustering_algorithms, alg, filters, saved, nWarn, lastWarn,
                 paramsLog, showCount,
                 colors>>

\* the extraction without its else branch: y_pred keeps its old value when
\* the estimator has no labels_
ExtractLabels_NoElse ==
  /\ pc = "labels"
  /\ IF clustering_algorithms[alg].has_labels_
       THEN /\ y_pred' \in LabelVectors(clustering_algorithms[alg].fitted_on.n)
            /\ y_src' = [alg |-> alg, pts |-> clustering_algorithms[alg].fitted_on]
            /\ log' = Append(log, [Ev("labels_", X.ds, alg, plot_num)
                                     EXCEPT !.src = alg])
       ELSE UNCHANGED <<y_pred, y_src, log>>
  /\ pc' = "subplot"
  /\ UNCHANGED <<i_dataset, params, X, plot_num, default_base, datasets,
                 clustering_algorithms, alg, filters, saved, nWarn, lastWarn,
                 paramsLog, showCount,
                 colors>>

\* lines 242-245: y_pred from labels_ or from predict(X)
ExtractLabels ==
  /\ pc = "labels"
  /\ IF clustering_algorithms[alg].has_labels_
       THEN /\ y_pred' \in LabelVectors(clustering_algorithms[alg].fitted_on.n)
            /\ y_src' = [alg |-> alg, pts |-> clustering_algorithms[alg].fitted_on]
            /\ log' = Append(log, [Ev("labels_", X.ds, alg, plot_num)
                                     EXCEPT !.src = alg])
       ELSE /\ y_pred' \in LabelVectors(X.n)
            /\ y_src' = [alg |-> alg, pts |-> X]
            /\ log' = Append(log, [Ev("predict", X.ds, alg, plot_num)
                                     EXCEPT !.src = alg])
  /\ pc' = "subplot"
  /\ UNCHANGED <<i_dataset, params, X, plot_num, default_base, datasets,
                 clustering_algorithms, alg, filters, saved, nWarn, lastWarn,
                 paramsLog, showCount,
                 colors>>

\* lines 247-249: plt.subplot(...); the title only when i_dataset == 0
Subplot ==
  /\ pc = "subplot"
  /\ log' = Append(log, [Ev("subplot", X.ds, alg, plot_num) EXCEPT
                           !.rows = PyLen(datasets),
                           !.cols = PyLen(clustering_algorithms),
                           !.title = (i_dataset = 0)])
  /\ pc' = "scatter"
  /\ UNCHANGED <<i_dataset, params, X, plot_num, default_base, datasets,
                 clustering_algorithms, alg, filters, saved, nWarn, lastWarn,
                 y_pred, y_src, paramsLog, showCount,
                 colors>>

\* the plot with plt.show() indented into the loop body
Scatter_ShowInLoop ==
  /\ pc = "scatter"
  /\ colors' = Colors(y_pred)
  /\ \A i \in 1 .. Len(y_pred) : InBounds(colors', y_pred[i])
  /\ log' = Append(log, [Ev("scatter", X.ds, alg, plot_num) EXCEPT
                           !.src = y_src.alg,
                           !.pts = y_src.pts.ds,
                           !.n = Len(y_pred)])
  /\ plot_num' = plot_num + 1
  /\ showCount' = showCount + 1
  /\ pc' = "loop"
  /\ UNCHANGED <<i_dataset, params, X, default_base, datasets,
                 clustering_algorithms, alg, filters, saved, nWarn, lastWarn,
                 y_pred, y_src, paramsLog>>

\* lines 251-266: colors, plt.scatter(X[:, 0], X[:, 1], color=colors[y_pred]),
\* the axes decoration, plot_num += 1
Scatter ==
  /\ pc = "scatter"
  /\ colors' = Colors(y_pred)
  /\ IF \A i \in 1 .. Len(y_pred) : InBounds(colors', y_pred[i])
       THEN /\ log' = Append(log, [Ev("scatter", X.ds, alg, plot_num) EXCEPT
                                     !.src = y_src.alg,
                                     !.pts = y_src.pts.ds,
                                     !.n = Len(y_pred)])
            /\ plot_num' = plot_num + 1
            /\ pc' = "loop"
       ELSE \* IndexError out of colors[y_pred], not caught
            /\ Uncaught(X)
            /\ plot_num' = plot_num
  /\ UNCHANGED <<i_dataset, params, X, default_base, datasets,
                 clustering_algorithms, alg, filters, saved, nWarn, lastWarn,
                 y_pred, y_src, paramsLog, showCount>>

\* line 268: the loop is exhausted; plt.show()
Show ==
  /\ pc = "loop"
  /\ alg + 1 = NAlgorithms
  /\ showCount' = showCount + 1
  /\ pc' = "done"
  /\ log' = Append(log, Ev("show", X.ds, -1, plot_num))
  /\ UNCHANGED <<i_dataset, params, X, plot_num, default_base, datasets,
                 clustering_algorithms, alg, filters, saved, nWarn, lastWarn,
                 y_pred, y_src, paramsLog,
                 colors>>

Next ==
  \/ Generate
  \/ GenerateRaise
  \/ Setup
  \/ DatasetIter
  \/ ScaleRaise
  \/ DatasetLoopEnd
  \/ Build
  \/ BuildRaise
  \/ NextAlgorithm
  \/ EnterCatch
  \/ FitWarn
  \/ FitReturn
  \/ FitRaise
  \/ ExtractLabels
  \/ Subplot
  \/ Scatter
  \/ Show

Spec == Init /\ [][Next]_vars

\* the kernel runs each queued statement: a run does not stall midway
FairSpec == Spec /\ WF_vars(Next)

\* ------------------------------------------- the colour lookup on its own
\* The state right before the first plot of cell 4 (lines 251-257), with
\* y_pred any label vector over -1 .. MaxColorLabel, so that labels beyond
\* the nine colours of the palette occur.
ColorInit ==
  /\ pc = "scatter"
  /\ i_dataset = NDatasets - 1
  /\ params = Merge(DefaultBase0, Datasets0[NDatasets - 1].algo_params)
  /\ X = Normalise(Raw(NDatasets - 1))
  /\ plot_num = 1
  /\ default_base = DefaultBase0
  /\ datasets = Datasets0
  /\ clustering_algorithms =
       [j \in AlgorithmIds |->
          IF j = 0
            THEN [Estimator(j, params, X) EXCEPT
                    !.fitted_on = X, !.has_labels_ = HasLabelsAttr(j)]
            ELSE Estimator(j, params, X)]
  /\ alg = 0
  /\ filters \in InitialFilters
  /\ saved = filters
  /\ nWarn = 0
  /\ lastWarn = NoWarn
  /\ y_pred \in [1 .. X.n -> -1 .. MaxColorLabel]
  /\ y_src = [alg |-> 0, pts |-> X]
  /\ log = <<>>
  /\ paramsLog = <<>>
  /\ showCount = 0
  /\ colors = <<>>

ColorNext == Scatter

ColorSpec == ColorInit /\ [][ColorNext]_vars

\* ------------------------------------------------------------ properties
Idx == 1 .. Len(log)

\* positions of the log holding event e of dataset i and algorithm j
At(e, i, j) == {n \in Idx : log[n].ev = e /\ log[n].ds = i /\ log[n].alg = j}

\* positions of the log holding event e
Of(e) == {n \in Idx : log[n].ev = e}

\* C1: a run that reaches the end has fitted and plotted each of the 6 x 10
\* (dataset, algorithm) pairs exactly once, 60 fits and 60 scatter plots
C1_EveryPairOnce ==
  pc = "done" =>
    /\ Cardinality(Of("fit")) = NDatasets * NAlgorithms
    /\ Cardinality(Of("scatter")) = NDatasets * NAlgorithms
    /\ \A i \in DatasetIds, j \in AlgorithmIds :
         /\ Cardinality(At("fit", i, j)) = 1
         /\ Cardinality(At("scatter", i, j)) = 1

\* the merged parameters of dataset i, written out key by key
ExpectedParams(i) ==
  [k \in Keys |->
     IF k \in DOMAIN Datasets0[i].algo_params
       THEN Datasets0[i].algo_params[k]
       ELSE DefaultBase0[k]]

\* C2: an estimator fitted on a dataset was constructed from that dataset's
\* merged parameters and, where it takes bandwidth or connectivity, from that
\* dataset's normalised points; it carries no other dataset's data
C2_OwnParamsAndData ==
  \A n \in Of("fit_start") \cup Of("fit") :
    LET e == clustering_algorithms[log[n].alg]
        d == log[n].ds
    IN  /\ d \in DatasetIds
        /\ \A k \in DOMAIN e.args : e.args[k] = ExpectedParams(d)[k]
        /\ log[n].alg \in UsesData => e.data = [ds |-> d, norm |-> TRUE, n |-> NPoints]
        /\ e.data.ds \in {-1, d}

C2_Witness ==
  /\ pc = "labels"
  /\ alg = 4
  /\ clustering_algorithms[4].fitted_on.ds = 5

\* C3: every rendered plot is preceded, in this order, by the generation of
\* the data, the merge of its dataset's parameters, the fit of its estimator
\* on the plotted points and the extraction of the labels from that
\* estimator; no fit starts between a fit and its plot, and a fit starts only
\* when every earlier fit has been plotted
C3_StepsInOrder ==
  /\ \A p \in Of("scatter") :
       /\ log[p].src = log[p].alg
       /\ log[p].pts = log[p].ds
       /\ \E f \in At("fit", log[p].ds, log[p].alg) :
            /\ f < p
            /\ log[f].pts = log[p].ds
            /\ \E m \in At("merge", log[p].ds, -1) :
                 m < f /\ \E g \in Of("gen") : g < m
            /\ \E l \in Of("labels_") \cup Of("predict") :
                 f < l /\ l < p /\ log[l].alg = log[p].alg
            /\ \A q \in Of("fit_start") \cup Of("fit") : ~(f < q /\ q < p)
  /\ \A s \in Of("fit_start") :
       Cardinality({q \in Of("fit_start") : q < s})
         = Cardinality({q \in Of("scatter") : q < s})

C3_Witness ==
  /\ pc = "loop"
  /\ Cardinality(Of("scatter")) = 2

\* C4: every subplot call uses the 6 x 10 grid and an index in 1..60, the
\* index is used once, and the plot of dataset i and algorithm j is at
\* 10*i + j + 1
C4_GridIndex ==
  /\ \A n \in Of("subplot") :
       /\ log[n].rows = NDatasets
       /\ log[n].cols = NAlgorithms
       /\ log[n].idx \in 1 .. (NDatasets * NAlgorithms)
       /\ log[n].idx = NAlgorithms * log[n].ds + log[n].alg + 1
       /\ \A q \in Of("subplot") : log[q].idx = log[n].idx => q = n
  /\ plot_num > 0 => plot_num = Cardinality(Of("scatter")) + 1

\* C5: the merged params of blobs and of no_structure both equal
\* default_base on all nine keys, and the estimators that cluster
\* no_structure carry those values
C5_NullUsesRowAbove ==
  /\ Len(paramsLog) >= 5 =>
       /\ DOMAIN paramsLog[5] = Keys
       /\ \A k \in Keys : paramsLog[5][k] = DefaultBase0[k]
  /\ Len(paramsLog) >= 6 =>
       /\ DOMAIN paramsLog[6] = Keys
       /\ \A k \in Keys : paramsLog[6][k] = DefaultBase0[k]
       /\ paramsLog[6] = paramsLog[5]
  /\ \A n \in Of("fit") :
       log[n].ds = 5 =>
         \A k \in DOMAIN clustering_algorithms[log[n].alg].args :
           clustering_algorithms[log[n].alg].args[k] = DefaultBase0[k]

C5_Witness ==
  /\ Len(paramsLog) = 6
  /\ At("fit", 5, 7) # {}

\* C6: an exception raised by data generation or by a fit is not caught:
\* it is the last thing the run does, no pair is fitted or plotted after it,
\* plot_num keeps the value it had (one more than the plots rendered, the
\* failing pair not among them) and plt.show() is not reached
C6_UncaughtStops ==
  \A r \in Of("raise") :
    /\ r = Len(log)
    /\ pc = "failed"
    /\ showCount = 0
    /\ Of("show") = {}
    /\ plot_num = log[r].idx
    /\ plot_num > 0 => plot_num = Cardinality(Of("scatter")) + 1
    /\ log[r].alg >= 0 =>
         /\ At("scatter", log[r].ds, log[r].alg) = {}
         /\ At("fit", log[r].ds, log[r].alg) = {}

C6_Witness ==
  /\ pc = "failed"
  /\ alg = 3
  /\ plot_num = 4
  /\ Of("raise") # {}

\* the two messages the filters are written for
IsGraphWarning(w) ==
  /\ w.category = "UserWarning"
  /\ w.message.kind \in {"components", "graph"}

\* C7: outside algorithm.fit(X) the filter list is the one found before the
\* fit; a warning raised during a fit that is not one of the two UserWarning
\* messages is handled as it would have been before the fit, and a
\* FutureWarning is shown
C7_SuppressionLimited ==
  /\ (Of("fit_start") # {} /\ pc # "fit") => filters = saved
  /\ (Of("fit_start") = {}) => filters \in InitialFilters
  /\ lastWarn.raised =>
       /\ ~IsGraphWarning(lastWarn.warning) =>
            lastWarn.shown = lastWarn.before
       /\ lastWarn.warning.category = "FutureWarning" => lastWarn.shown
       /\ ~lastWarn.shown =>
            \/ IsGraphWarning(lastWarn.warning)
            \/ ~lastWarn.before

C7_Witness ==
  /\ pc = "labels"
  /\ lastWarn.raised
  /\ lastWarn.warning.category = "FutureWarning"
  /\ lastWarn.warning.message.kind = "components"
  /\ lastWarn.shown
  /\ filters = saved

\* C8: each pair's label vector is extracted once and plotted once, has one
\* integer label per row of the X passed to fit, and comes from the
\* estimator fitted on the rows that are plotted
C8_LabelsAligned ==
  /\ \A p \in Of("scatter") :
       /\ log[p].n = NPoints
       /\ log[p].src = log[p].alg
       /\ log[p].pts = log[p].ds
       /\ Cardinality({l \in Of("labels_") \cup Of("predict") :
                         l < p /\ log[l].alg = log[p].alg}) = 1
       /\ Cardinality({q \in Of("scatter") : log[q].alg = log[p].alg}) = 1
  /\ pc = "scatter" =>
       /\ y_pred \in LabelVectors(X.n)
       /\ y_src.alg = alg
       /\ y_src.pts = X
       /\ clustering_algorithms[alg].fitted_on = X

C8_Witness ==
  /\ pc = "scatter"
  /\ alg = 9
  /\ y_pred = [k \in 1 .. NPoints |-> IF k = 1 THEN -1 ELSE 1]

\* C9: the run always ends; when nothing raised it ends after plt.show(),
\* called once, after the plot of the last pair, and nothing is fitted or
\* plotted after it
C9_Terminates ==
  /\ <>(pc = "done" \/ pc = "failed")
  /\ [](pc = "failed" <=> Of("raise") # {})
  /\ [](pc = "done" =>
          /\ showCount = 1
          /\ Of("show") = {Len(log)}
          /\ log[Len(log) - 1].ev = "scatter"
          /\ log[Len(log) - 1].alg = NAlgorithms - 1
          /\ Cardinality(Of("scatter")) = Cardinality(Of("fit")))
  /\ [](showCount > 0 => pc = "done")
  /\ [][pc = "done" => UNCHANGED vars]_vars

C9_Witness ==
  /\ pc = "done"
  /\ showCount = 1
  /\ Of("raise") = {}

\* C10: at the end of a run each algorithm's name has been drawn as a title
\* exactly once, on its plot of the first dataset, and on no other row
C10_TitlesOnFirstRow ==
  /\ \A n \in Of("subplot") : log[n].title => log[n].ds = 0
  /\ pc = "done" =>
       \A j \in AlgorithmIds :
         Cardinality({n \in At("subplot", 0, j) : log[n].title}) = 1

\* C11: after a plot, for a label vector with entries in -1 .. max(y_pred):
\* the colour array has max(y_pred) + 2 entries, black last; every label is
\* a valid index; a label k >= 0 gets entry k mod 9 of the palette and never
\* black; the label -1 gets black; the lookup does not raise
C11_ColourLookup ==
  /\ pc \in {"scatter", "loop"}
  /\ pc = "loop" =>
       /\ \A i \in 1 .. Len(y_pred) : y_pred[i] \in -1 .. PyMax(y_pred)
       /\ Len(colors) = PyMax(y_pred) + 2
       /\ colors[Len(colors)] = "#000000"
       /\ \A i \in 1 .. Len(y_pred) :
            /\ -Len(colors) <= y_pred[i]
            /\ y_pred[i] < Len(colors)
            /\ y_pred[i] >= 0 =>
                 /\ NpIndex(colors, y_pred[i]) = Palette[(y_pred[i] % 9) + 1]
                 /\ NpIndex(colors, y_pred[i]) # "#000000"
            /\ y_pred[i] = -1 => NpIndex(colors, y_pred[i]) = "#000000"

C11_Witness ==
  /\ pc = "loop"
  /\ y_pred[1] = -1
  /\ y_pred[NPoints] = 9
  /\ Len(colors) = 11
  /\ colors[10] = "#377eb8"

\* the events that produce y_pred
LabelEvents == Of("labels_") \cup Of("predict")

\* C12: labels are read from labels_ for every estimator that has the
\* attribute and predict(X) is called only for the Gaussian mixture, which
\* has none; each plotted pair has exactly one of the two; either follows
\* directly the fit of the same estimator on the same X
C12_LabelSource ==
  /\ \A l \in Of("labels_") :
       /\ AlgorithmNames[log[l].alg] # "Gaussian Mixture"
       /\ clustering_algorithms[log[l].alg].has_labels_
  /\ \A l \in Of("predict") :
       /\ AlgorithmNames[log[l].alg] = "Gaussian Mixture"
       /\ ~clustering_algorithms[log[l].alg].has_labels_
  /\ \A l \in LabelEvents :
       /\ l > 1
       /\ log[l - 1].ev = "fit"
       /\ log[l - 1].alg = log[l].alg
       /\ log[l - 1].ds = log[l].ds
       /\ clustering_algorithms[log[l].alg].fitted_on.ds = log[l].ds
       /\ \A q \in LabelEvents : log[q].alg = log[l].alg => q = l
  /\ \A p \in Of("scatter") : \E l \in LabelEvents : l < p /\ log[l].alg = log[p].alg
  /\ pc \in {"subplot", "scatter"} =>
       /\ \A i \in 1 .. Len(y_pred) : y_pred[i] \in Int
       /\ log[Len(log) - (IF pc = "subplot" THEN 0 ELSE 1)].alg = alg
       /\ log[Len(log) - (IF pc = "subplot" THEN 0 ELSE 1)].ev
            = (IF alg = NAlgorithms - 1 THEN "predict" ELSE "labels_")

C12_Witness ==
  /\ pc = "subplot"
  /\ alg = 9
  /\ log[Len(log)].ev = "predict"
  /\ Cardinality(Of("labels_")) = 9

\* C13: once default_base and datasets are set, no iteration of the dataset
\* loop changes them; every merged params has exactly the nine keys, holds
\* the dataset's own value for a key the dataset overrides and the
\* default_base value for every key it does not, whatever earlier datasets
\* have overridden
C13_MergeFrame ==
  /\ plot_num > 0 =>
       /\ default_base = DefaultBase0
       /\ DOMAIN default_base = Keys
       /\ datasets = Datasets0
  /\ \A n \in 1 .. Len(paramsLog) :
       /\ DOMAIN paramsLog[n] = Keys
       /\ \A k \in Keys :
            IF k \in DOMAIN Datasets0[n - 1].algo_params
              THEN paramsLog[n][k] = Datasets0[n - 1].algo_params[k]
              ELSE paramsLog[n][k] = DefaultBase0[k]
  /\ i_dataset >= 0 => DOMAIN params = Keys

C13_Witness ==
  /\ pc = "build"
  /\ Len(paramsLog) = 6
  /\ paramsLog[3].n_clusters = 3000
  /\ paramsLog[2].n_clusters = 2000
  /\ default_base = DefaultBase0
==========================================================================
